---------------------------- MODULE Spec2Model ----------------------------
(***************************************************************************)
(* Model of the tone-analysis backend in src/text_toner_backend/app.      *)
(*                                                                         *)
(* Strings are sequences of one-character strings.  Scores and             *)
(* confidences are exact rationals written as pairs <<num, den>>.          *)
(*                                                                         *)
(* services/tone_analyzer.py names eight ToneType members (FORMAL,         *)
(* CASUAL, ...) while models.py declares three (SAD, ANGRY, FRIENDLY), and *)
(* it builds ToneAnalysisResponse from seven keyword arguments while       *)
(* models.py declares two fields.  The analyzer is modelled as it is       *)
(* written: its eight labels are the values it computes with and the       *)
(* record it builds carries the fields it passes.  ToneType below is the   *)
(* declaration in models.py.                                               *)
(*                                                                         *)
(* Every coroutine of the application is run by one asyncio event loop.    *)
(* A task keeps the loop until it awaits something that suspends; no       *)
(* handler of this repository does (load_model and the pymongo calls are   *)
(* blocking calls), which `running` and LoadModelSuspends make explicit.   *)
(***************************************************************************)
EXTENDS Integers, Sequences, FiniteSets, TLC

\* ------------------------------------------------------------------ bounds
NumReq == 2
MaxMessages == 1

\* Feedback documents stored at most
MaxFeedback == 1

\* length of the over-long request text
LongLen == 600

\* ------------------------------------------------------- program constants
MAX_TEXT_LENGTH == 512

\* a threshold of 0.0, which no score is below
ConfidenceThresholdMutant == <<0, 1>>

CONFIDENCE_THRESHOLD == <<3, 10>>

\* search_messages: limit: int = Query(20, ge=1, le=50)
SEARCH_LIMIT == 20

\* models.py: class ToneType(str, Enum)
ToneType == {"sad", "angry", "friendly"}

\* config.py: SUPPORTED_TONES
SUPPORTED_TONES == <<"sad", "angry", "friendly">>

\* The ToneType members tone_analyzer.py refers to, by value.
FORMAL == "formal"
FRIENDLY == "friendly"
APOLOGETIC == "apologetic"
ASSERTIVE == "assertive"
EMOTIONAL == "emotional"
PROFESSIONAL == "professional"
CASUAL == "casual"
ENTHUSIASTIC == "enthusiastic"

AnalyzerTones ==
    {FORMAL, FRIENDLY, APOLOGETIC, ASSERTIVE, EMOTIONAL, PROFESSIONAL, CASUAL, ENTHUSIASTIC}

\* self.tone_mapping
tone_mapping ==
    [positive |-> <<FRIENDLY, ENTHUSIASTIC, PROFESSIONAL>>,
     negative |-> <<APOLOGETIC, EMOTIONAL>>,
     neutral  |-> <<FORMAL, CASUAL, ASSERTIVE>>]

\* sentiment_labels in _analyze_sentiment, indexed from 0 in the code
sentiment_labels == <<"negative", "neutral", "positive">>

Keywords_FORMAL ==
    << <<"s","i","n","c","e","r","e","l","y">>,
       <<"r","e","s","p","e","c","t","f","u","l","l","y">>,
       <<"r","e","g","a","r","d","s">>,
       <<"y","o","u","r","s"," ","t","r","u","l","y">>,
       <<"p","l","e","a","s","e">>,
       <<"w","o","u","l","d"," ","y","o","u">>,
       <<"c","o","u","l","d"," ","y","o","u">> >>

Keywords_FRIENDLY ==
    << <<"h","e","y">>,
       <<"h","i">>,
       <<"h","e","l","l","o">>,
       <<"t","h","a","n","k","s">>,
       <<"t","h","a","n","k"," ","y","o","u">>,
       <<"a","p","p","r","e","c","i","a","t","e">>,
       <<"g","r","e","a","t">>,
       <<"a","w","e","s","o","m","e">> >>

Keywords_APOLOGETIC ==
    << <<"s","o","r","r","y">>,
       <<"a","p","o","l","o","g","i","z","e">>,
       <<"a","p","o","l","o","g","y">>,
       <<"r","e","g","r","e","t">>,
       <<"u","n","f","o","r","t","u","n","a","t","e","l","y">>,
       <<"m","y"," ","b","a","d">>,
       <<"e","x","c","u","s","e"," ","m","e">> >>

Keywords_ASSERTIVE ==
    << <<"m","u","s","t">>,
       <<"s","h","o","u","l","d">>,
       <<"n","e","e","d"," ","t","o">>,
       <<"h","a","v","e"," ","t","o">>,
       <<"w","i","l","l">>,
       <<"s","h","a","l","l">>,
       <<"d","e","f","i","n","i","t","e","l","y">>,
       <<"c","e","r","t","a","i","n","l","y">> >>

Keywords_EMOTIONAL ==
    << <<"f","e","e","l">>,
       <<"f","e","e","l","i","n","g">>,
       <<"u","p","s","e","t">>,
       <<"h","a","p","p","y">>,
       <<"s","a","d">>,
       <<"a","n","g","r","y">>,
       <<"e","x","c","i","t","e","d">>,
       <<"w","o","r","r","i","e","d">> >>

Keywords_PROFESSIONAL ==
    << <<"b","u","s","i","n","e","s","s">>,
       <<"p","r","o","f","e","s","s","i","o","n","a","l">>,
       <<"c","o","r","p","o","r","a","t","e">>,
       <<"i","n","d","u","s","t","r","y">>,
       <<"e","x","p","e","r","t","i","s","e">>,
       <<"e","x","p","e","r","i","e","n","c","e">> >>

Keywords_CASUAL ==
    << <<"c","o","o","l">>,
       <<"a","w","e","s","o","m","e">>,
       <<"g","r","e","a","t">>,
       <<"n","i","c","e">>,
       <<"y","e","a","h">>,
       <<"s","u","r","e">>,
       <<"o","k","a","y">>,
       <<"n","o"," ","p","r","o","b","l","e","m">> >>

Keywords_ENTHUSIASTIC ==
    << <<"a","m","a","z","i","n","g">>,
       <<"f","a","n","t","a","s","t","i","c">>,
       <<"i","n","c","r","e","d","i","b","l","e">>,
       <<"w","o","n","d","e","r","f","u","l">>,
       <<"e","x","c","e","l","l","e","n","t">>,
       <<"b","r","i","l","l","i","a","n","t">>,
       <<"o","u","t","s","t","a","n","d","i","n","g">> >>

CasualToProfessional ==
    << << <<"h","e","y">>, <<"H","e","l","l","o">> >>,
       << <<"h","i">>, <<"H","e","l","l","o">> >>,
       << <<"t","h","a","n","k","s">>, <<"T","h","a","n","k"," ","y","o","u">> >>,
       << <<"c","o","o","l">>, <<"e","x","c","e","l","l","e","n","t">> >>,
       << <<"a","w","e","s","o","m","e">>, <<"o","u","t","s","t","a","n","d","i","n","g">> >>,
       << <<"y","e","a","h">>, <<"y","e","s">> >>,
       << <<"o","k","a","y">>, <<"a","c","c","e","p","t","a","b","l","e">> >> >>

AssertiveToFriendly ==
    << << <<"m","u","s","t">>, <<"s","h","o","u","l","d"," ","c","o","n","s","i","d","e","r">> >>,
       << <<"h","a","v","e"," ","t","o">>, <<"m","i","g","h","t"," ","w","a","n","t"," ","t","o">> >>,
       << <<"n","e","e","d"," ","t","o">>, <<"c","o","u","l","d"," ","b","e","n","e","f","i","t"," ","f","r","o","m">> >>,
       << <<"w","i","l","l">>, <<"w","o","u","l","d"," ","l","i","k","e"," ","t","o">> >> >>

TextSorry == <<"I"," ","a","m"," ","s","o"," ","s","o","r","r","y",","," ","I"," ","f","e","e","l"," ","h","u","r","t">>

TextStupid == <<"T","h","i","s"," ","i","s"," ","s","o"," ","s","t","u","p","i","d",","," ","I"," ","h","a","t","e"," ","i","t">>

TextNice == <<"N","i","c","e"," ","t","o"," ","m","e","e","t"," ","y","o","u">>

TextBlank == <<" ">>

TextCasual == <<" ","c","o","o","l",","," ","o","k","a","y",","," ","y","e","a","h"," ","s","u","r","e"," ">>

\* 75 words "aaaaaaa " : longer than MAX_TEXT_LENGTH, its 512th character is a space
TextLong == [i \in 1..LongLen |-> IF i % 8 = 0 THEN " " ELSE "a"]

LowerOf ==
    "A" :> "a" @@ "B" :> "b" @@ "C" :> "c" @@ "D" :> "d" @@ "E" :> "e" @@ "F" :> "f" @@ "G" :> "g" @@ "H" :> "h" @@ "I" :> "i" @@ "J" :> "j" @@ "K" :> "k" @@ "L" :> "l" @@ "M" :> "m" @@ "N" :> "n" @@ "O" :> "o" @@ "P" :> "p" @@ "Q" :> "q" @@ "R" :> "r" @@ "S" :> "s" @@ "T" :> "t" @@ "U" :> "u" @@ "V" :> "v" @@ "W" :> "w" @@ "X" :> "x" @@ "Y" :> "y" @@ "Z" :> "z"


tone_keywords ==
    (FORMAL :> Keywords_FORMAL) @@ (FRIENDLY :> Keywords_FRIENDLY) @@
    (APOLOGETIC :> Keywords_APOLOGETIC) @@ (ASSERTIVE :> Keywords_ASSERTIVE) @@
    (EMOTIONAL :> Keywords_EMOTIONAL) @@ (PROFESSIONAL :> Keywords_PROFESSIONAL) @@
    (CASUAL :> Keywords_CASUAL) @@ (ENTHUSIASTIC :> Keywords_ENTHUSIASTIC)

\* ------------------------------------------------------------ input domains
\* Request texts: all pass ToneAnalysisRequest (1..2000 characters).
Texts == {TextSorry, TextStupid, TextNice, TextBlank, TextCasual}

\* Top softmax probability of the classifier, as exact rationals.
Confidences == {<<2, 5>>, <<9, 10>>, <<1, 1>>}

\* Texts stored through create_message: both pass MessageCreate (1..1000 characters).
MessageTexts == {TextNice, TextCasual}

\* Texts around the length limit of _preprocess_text, for the single-request
\* specification SpecLong: over the limit, blank, padded with whitespace.
LongTexts == {TextLong, TextBlank, TextCasual}

Users == {"u1", "u2"}

\* Registration data: both names pass UserBase (3..50 characters)
Usernames == {"alice", "bob"}

Emails == {"a@example.org", "b@example.org"}

\* Passwords given at registration (UserCreate: at least 8 characters), and at login
Passwords == {"password-1"}

LoginPasswords == Passwords \cup {"password-2"}

\* ------------------------------------------------------------ string helpers
Whitespace == {" ", "\t", "\n", "\r"}

\* str.lower() on the ASCII letters
Lower(s) ==
    [i \in 1..Len(s) |-> IF s[i] \in DOMAIN LowerOf THEN LowerOf[s[i]] ELSE s[i]]

\* str.strip()
Strip(s) ==
    LET keep == {i \in 1..Len(s) : s[i] \notin Whitespace}
    IN  IF keep = {} THEN << >>
        ELSE LET lo == CHOOSE i \in keep : \A j \in keep : i <= j
                 hi == CHOOSE i \in keep : \A j \in keep : j <= i
             IN  SubSeq(s, lo, hi)

\* `k in s` on strings
Contains(s, k) ==
    \/ Len(k) = 0
    \/ \E i \in 1..(Len(s) - Len(k) + 1) : s[i] = k[1] /\ SubSeq(s, i, i + Len(k) - 1) = k

\* str.replace(old, new): leftmost, non-overlapping occurrences
RECURSIVE StrReplace(_, _, _)
StrReplace(s, old, new) ==
    IF Len(s) < Len(old) \/ Len(old) = 0 THEN s
    ELSE IF SubSeq(s, 1, Len(old)) = old
         THEN new \o StrReplace(SubSeq(s, Len(old) + 1, Len(s)), old, new)
         ELSE <<Head(s)>> \o StrReplace(Tail(s), old, new)

\* for old, new in replacements.items(): text = text.replace(old, new)
RECURSIVE ApplyReplacements(_, _, _)
ApplyReplacements(s, table, i) ==
    IF i > Len(table) THEN s
    ELSE ApplyReplacements(StrReplace(s, table[i][1], table[i][2]), table, i + 1)

\* ------------------------------------------------------------ rationals
RMul(a, b) == <<a[1] * b[1], a[2] * b[2]>>

RLess(a, b) == a[1] * b[2] < b[1] * a[2]

RZero == <<0, 1>>

\* ------------------------------------------------------------ ToneAnalyzer
\* _preprocess_text without the cut at MAX_TEXT_LENGTH
PreprocessTextMutant(text) == Strip(text)

\* _preprocess_text without text.strip()
PreprocessNoStripMutant(text) ==
    IF Len(text) > MAX_TEXT_LENGTH THEN SubSeq(text, 1, MAX_TEXT_LENGTH) ELSE text

\* _preprocess_text
PreprocessText(text) ==
    LET cut == IF Len(text) > MAX_TEXT_LENGTH THEN SubSeq(text, 1, MAX_TEXT_LENGTH) ELSE text
    IN  Strip(cut)

\* _analyze_tone_keywords returning the match count, not divided by len(keywords)
AnalyzeToneKeywordsMutant(text) ==
    LET text_lower == Lower(text)
    IN  [tone \in DOMAIN tone_keywords |->
            LET keywords == tone_keywords[tone]
            IN  <<Cardinality({i \in 1..Len(keywords) : Contains(text_lower, keywords[i])}), 1>>]

\* _analyze_tone_keywords: tone -> score / len(keywords)
AnalyzeToneKeywords(text) ==
    LET text_lower == Lower(text)
    IN  [tone \in DOMAIN tone_keywords |->
            LET keywords == tone_keywords[tone]
                score == Cardinality({i \in 1..Len(keywords) : Contains(text_lower, keywords[i])})
            IN  IF Len(keywords) > 0 THEN <<score, Len(keywords)>> ELSE RZero]

\* the candidate loop of analyze_tone: returns <<best_tone, best_score>>
RECURSIVE BestMatch(_, _, _, _, _)
BestMatch(candidates, i, tone_scores, confidence, best) ==
    IF i > Len(candidates) THEN best
    ELSE LET tone == candidates[i]
             score == RMul(IF tone \in DOMAIN tone_scores THEN tone_scores[tone] ELSE RZero,
                           confidence)
         IN  BestMatch(candidates, i + 1, tone_scores, confidence,
                       IF RLess(best[2], score) THEN <<tone, score>> ELSE best)

\* "If no strong keyword match, use sentiment-based tone"
SelectTone(candidates, tone_scores, confidence) ==
    LET best == BestMatch(candidates, 1, tone_scores, confidence, <<CASUAL, RZero>>)
    IN  IF RLess(best[2], CONFIDENCE_THRESHOLD)
        THEN <<candidates[1], confidence>>
        ELSE best

\* _generate_suggestions without the general suggestions
GenerateSuggestionsMutant(detected_tone) ==
    IF detected_tone = CASUAL
    THEN <<"casual: more formal language", "casual: complete sentences",
           "casual: add specific details">>
    ELSE << >>

\* _generate_suggestions
GenerateSuggestions(detected_tone) ==
    LET specific ==
            IF detected_tone = FORMAL
            THEN <<"formal: more conversational language", "formal: add personal pronouns",
                   "formal: include a greeting or closing">>
            ELSE IF detected_tone = ASSERTIVE
            THEN <<"assertive: soften your language", "assertive: use questions",
                   "assertive: add context or reasoning">>
            ELSE IF detected_tone = EMOTIONAL
            THEN <<"emotional: more neutral language", "emotional: focus on facts",
                   "emotional: use 'I feel' statements">>
            ELSE IF detected_tone = CASUAL
            THEN <<"casual: more formal language", "casual: complete sentences",
                   "casual: add specific details">>
            ELSE << >>
        all == specific \o <<"general: consider your audience", "general: clear and actionable",
                             "general: proofread">>
    IN  SubSeq(all, 1, 3)

\* _improve_text returning the lower-cased text it matched on
ImproveTextMutant(text, detected_tone, target_tone) == Lower(text)

\* _improve_text; target_tone None is written "none"
ImproveText(text, detected_tone, target_tone) ==
    LET target == IF target_tone = "none" THEN PROFESSIONAL ELSE target_tone
    IN  IF detected_tone = CASUAL /\ target = PROFESSIONAL
        THEN ApplyReplacements(text, CasualToProfessional, 1)
        ELSE IF detected_tone = ASSERTIVE /\ target = FRIENDLY
        THEN ApplyReplacements(text, AssertiveToFriendly, 1)
        ELSE text

\* analyze_tone handing _improve_text a tone other than the detected one
BuildAnalysisWrongToneMutant(text, processed_text, sentiment, sentiment_confidence) ==
    LET tone_scores == AnalyzeToneKeywords(processed_text)
        candidates == IF sentiment \in DOMAIN tone_mapping THEN tone_mapping[sentiment]
                      ELSE <<CASUAL>>
        best == SelectTone(candidates, tone_scores, sentiment_confidence)
    IN  [original_text    |-> text,
         detected_tone    |-> best[1],
         confidence_score |-> best[2],
         tone_breakdown   |-> [tone_scores |-> tone_scores, sentiment |-> sentiment_confidence],
         suggestions      |-> GenerateSuggestions(best[1]),
         improved_text    |-> ImproveText(processed_text, CASUAL, "none")]

\* analyze_tone answering with original_text=processed_text
BuildAnalysisProcessedMutant(text, processed_text, sentiment, sentiment_confidence) ==
    LET tone_scores == AnalyzeToneKeywords(processed_text)
        candidates == IF sentiment \in DOMAIN tone_mapping THEN tone_mapping[sentiment]
                      ELSE <<CASUAL>>
        best == SelectTone(candidates, tone_scores, sentiment_confidence)
    IN  [original_text    |-> processed_text,
         detected_tone    |-> best[1],
         confidence_score |-> best[2],
         tone_breakdown   |-> [tone_scores |-> tone_scores, sentiment |-> sentiment_confidence],
         suggestions      |-> GenerateSuggestions(best[1]),
         improved_text    |-> ImproveText(processed_text, best[1], "none")]

\* analyze_tone from "Analyze tone keywords" to the ToneAnalysisResponse it builds
BuildAnalysis(text, processed_text, sentiment, sentiment_confidence) ==
    LET tone_scores == AnalyzeToneKeywords(processed_text)
        candidates == IF sentiment \in DOMAIN tone_mapping THEN tone_mapping[sentiment]
                      ELSE <<CASUAL>>
        best == SelectTone(candidates, tone_scores, sentiment_confidence)
    IN  [original_text    |-> text,
         detected_tone    |-> best[1],
         confidence_score |-> best[2],
         tone_breakdown   |-> [tone_scores |-> tone_scores, sentiment |-> sentiment_confidence],
         suggestions      |-> GenerateSuggestions(best[1]),
         improved_text    |-> ImproveText(processed_text, best[1], "none")]

NoAnalysis ==
    [original_text    |-> << >>,
     detected_tone    |-> "none",
     confidence_score |-> RZero,
     tone_breakdown   |-> [tone_scores |-> AnalyzeToneKeywords(<< >>), sentiment |-> RZero],
     suggestions      |-> << >>,
     improved_text    |-> << >>]

\* ------------------------------------------------------------------ state
VARIABLES
    phase,      \* "boot" | "serving" (lifespan startup done) | "adhoc" (app used
                \* without its lifespan: TestClient(app), test_model.py) | "failed" | "down"
    database,   \* db_manager.database: "none" | "set"
    tokenizer,  \* tone_analyzer.tokenizer: "none" | "set"
    model,      \* tone_analyzer.model: "none" | "set"
    is_loaded,  \* tone_analyzer.is_loaded
    pc,         \* position of each task; task 0 is the lifespan, 1..NumReq serve requests
    local,      \* locals of the request each task serves
    running,    \* the task holding the event loop: {} or {t}
    loading,    \* tasks inside load_model
    loadsDone,  \* completed load_model calls, counted up to 2
    loadFailed, \* whether some load_model call has raised
    response,   \* the response of the handler that ran last; cleared when the next
                \* request is accepted
    messages,   \* the messages collection, in insertion order
    users,      \* the users collection, in insertion order
    reply,      \* the response of the auth, message or feedback route that ran last
    creating,   \* per task, the user document create_user is about to insert
    feedback    \* the feedback collection, in insertion order

vars ==
    <<phase, database, tokenizer, model, is_loaded, pc, local, running, loading,
      loadsDone, loadFailed, response, messages, users, reply, creating,
      feedback>>

\* what the auth and feedback routes read and write besides the database handle
authVars == <<users, reply, creating, feedback>>

Req == 1..NumReq

Tasks == 0..NumReq

IsLifespan(t) == t = 0

Kinds == {"analyze", "message"}

\* called_load records whether this analyze_tone call invoked load_model
EmptyLocal ==
    [kind |-> "none", text |-> << >>, user_id |-> "none", called_load |-> FALSE,
     processed_text |-> << >>, sentiment |-> "none", sentiment_confidence |-> RZero,
     analysis |-> NoAnalysis]

NoHealth == [status |-> "none", database_connected |-> FALSE, model_loaded |-> FALSE]

NoResponse ==
    [kind |-> "none", status |-> 0, raised |-> "none", text |-> << >>,
     analysis |-> NoAnalysis, health |-> NoHealth]

\* What a client can put in the Authorization header: nothing, or a bearer token.
\* `signed` says that jwt.decode accepts the token (signature and expiry), `sub` is
\* its "sub" claim, "none" when the payload has none.
NoToken == [present |-> FALSE, signed |-> FALSE, sub |-> "none"]

Credentials ==
    [present : {TRUE}, signed : BOOLEAN, sub : Usernames \cup {"none"}] \cup {NoToken}

\* The last path segment of a request: a literal word, or the hex form of ObjectId oid
NoSegment == [literal |-> "none", oid |-> 0]

\* cred, username, email, password, caller, segment, data: what the request carried;
\* token: the access token issued; body: the documents returned
NoReply ==
    [endpoint |-> "none", status |-> 0, detail |-> "none", executed |-> FALSE,
     cred |-> NoToken, username |-> "none", email |-> "none", password |-> "none",
     token |-> NoToken, caller |-> "none", segment |-> NoSegment, data |-> << >>,
     body |-> << >>]

NoPending == [username |-> "none", email |-> "none", password |-> "none"]

\* What _analyze_sentiment can produce: a class index with its probability, or an
\* exception out of the tokenizer or the forward pass.
SentimentOutcomes ==
    [raises : {FALSE}, class : 0..(Len(sentiment_labels) - 1), confidence : Confidences]
        \cup {[raises |-> TRUE, class |-> 0, confidence |-> RZero]}

Init ==
    /\ phase \in {"boot", "adhoc"}
    /\ database = "none"
    /\ tokenizer = "none"
    /\ model = "none"
    /\ is_loaded = FALSE
    /\ pc = [t \in Tasks |-> "idle"]
    /\ local = [r \in Req |-> EmptyLocal]
    /\ running = {}
    /\ loading = {}
    /\ loadsDone = 0
    /\ loadFailed = FALSE
    /\ response = NoResponse
    /\ messages = << >>
    /\ users = << >>
    /\ reply = NoReply
    /\ creating = [r \in Req |-> NoPending]
    /\ feedback = << >>

\* ------------------------------------------------------------- scheduling
\* load_model contains no await that suspends: `await self.load_model()` runs inline.
LoadModelSuspendsMutant == TRUE

LoadModelSuspends == FALSE

\* A task steps when it holds the loop, or resumes when the loop is free.
CanStep(t) == running = {t} \/ running = {}

Serving == phase \in {"serving", "adhoc"}

\* `if not self.is_loaded:` in analyze_tone
NeedsLoadMutant(loaded) == TRUE

NeedsLoad(loaded) == ~loaded

\* load_model's except branch logs and re-raises; is_loaded is not assigned there
IsLoadedOnFailureMutant(loaded) == TRUE

IsLoadedOnFailure(loaded) == loaded

\* the routes answering 503 Service Unavailable from an exception
ErrorResponseMutant(r, origin) ==
    [kind |-> local[r].kind, status |-> 503, raised |-> origin,
     text |-> local[r].text, analysis |-> NoAnalysis, health |-> NoHealth]

\* The 500 response the routes build from an exception
ErrorResponse(r, origin) ==
    [kind |-> local[r].kind, status |-> 500, raised |-> origin,
     text |-> local[r].text, analysis |-> NoAnalysis, health |-> NoHealth]

\* An exception leaves the handler of task r: the route answers 500, the task ends.
Raise(r, origin) ==
    /\ response' = ErrorResponse(r, origin)
    /\ pc' = [pc EXCEPT ![r] = "idle"]
    /\ local' = [local EXCEPT ![r] = EmptyLocal]
    /\ running' = {}

\* -------------------------------------------------------------- lifespan
\* lifespan startup, db_manager.connect()
StartupConnect ==
    /\ UNCHANGED authVars
    /\ phase = "boot" /\ pc[0] = "idle" /\ running = {}
    /\ \E outcome \in {"ok", "client_error", "ping_error"} :
        /\ database' = IF outcome = "client_error" THEN database ELSE "set"
        /\ IF outcome = "ok"
           THEN /\ pc' = [pc EXCEPT ![0] = "load_entry"]
                /\ running' = {0}
                /\ phase' = phase
           ELSE /\ phase' = "failed"
                /\ UNCHANGED <<pc, running>>
    /\ UNCHANGED <<tokenizer, model, is_loaded, local, loading, loadsDone, loadFailed,
                   response, messages>>

\* lifespan startup, `await tone_analyzer.load_model()`: called unconditionally
StartupLoad ==
    /\ UNCHANGED authVars
    /\ pc[0] = "load_entry" /\ CanStep(0)
    /\ pc' = [pc EXCEPT ![0] = "load_tokenizer"]
    /\ loading' = loading \cup {0}
    /\ running' = IF LoadModelSuspends THEN {} ELSE {0}
    /\ UNCHANGED <<phase, database, tokenizer, model, is_loaded, local, loadsDone,
                   loadFailed, response, messages>>

\* lifespan shutdown, db_manager.disconnect()
Shutdown ==
    /\ UNCHANGED authVars
    /\ phase = "serving" /\ running = {}
    /\ \A t \in Tasks : pc[t] = "idle"
    /\ phase' = "down"
    /\ UNCHANGED <<database, tokenizer, model, is_loaded, pc, local, running, loading,
                   loadsDone, loadFailed, response, messages>>

\* ------------------------------------------------------------- load_model
\* load_model raises at task t
LoadFailed(t) ==
    /\ is_loaded' = IsLoadedOnFailure(is_loaded)
    /\ loading' = loading \ {t}
    /\ loadsDone' = loadsDone
    /\ loadFailed' = TRUE
    /\ IF IsLifespan(t)
       THEN /\ phase' = "failed"
            /\ pc' = [pc EXCEPT ![t] = "idle"]
            /\ running' = {}
            /\ UNCHANGED <<local, response>>
       ELSE /\ Raise(t, "load_model")
            /\ phase' = phase

\* self.tokenizer = AutoTokenizer.from_pretrained(...)
LoadTokenizer(t) ==
    /\ UNCHANGED authVars
    /\ pc[t] = "load_tokenizer" /\ CanStep(t)
    /\ \E ok \in BOOLEAN :
        IF ok
        THEN /\ tokenizer' = "set"
             /\ pc' = [pc EXCEPT ![t] = "load_model"]
             /\ running' = {t}
             /\ UNCHANGED <<phase, is_loaded, local, loading, loadsDone, loadFailed, response>>
        ELSE /\ LoadFailed(t)
             /\ tokenizer' = tokenizer
    /\ UNCHANGED <<database, model, messages>>

\* self.model = AutoModelForSequenceClassification.from_pretrained(...)
LoadModel(t) ==
    /\ UNCHANGED authVars
    /\ pc[t] = "load_model" /\ CanStep(t)
    /\ \E ok \in BOOLEAN :
        IF ok
        THEN /\ model' = "set"
             /\ pc' = [pc EXCEPT ![t] = "load_device"]
             /\ running' = {t}
             /\ UNCHANGED <<phase, is_loaded, local, loading, loadsDone, loadFailed, response>>
        ELSE /\ LoadFailed(t)
             /\ model' = model
    /\ UNCHANGED <<database, tokenizer, messages>>

\* self.model.to(self.device); self.model.eval(); self.is_loaded = True; return
LoadDevice(t) ==
    /\ UNCHANGED authVars
    /\ pc[t] = "load_device" /\ CanStep(t)
    /\ \E ok \in BOOLEAN :
        IF ok
        THEN /\ is_loaded' = TRUE
             /\ loadsDone' = IF loadsDone < 2 THEN loadsDone + 1 ELSE loadsDone
             /\ loading' = loading \ {t}
             /\ IF IsLifespan(t)
                THEN /\ phase' = "serving"
                     /\ pc' = [pc EXCEPT ![t] = "idle"]
                     /\ running' = {}
                ELSE /\ phase' = phase
                     /\ pc' = [pc EXCEPT ![t] = "preprocess"]
                     /\ running' = {t}
             /\ UNCHANGED <<local, loadFailed, response>>
        ELSE LoadFailed(t)
    /\ UNCHANGED <<database, tokenizer, model, messages>>

\* ------------------------------------------------------------- requests
\* POST /tone/analyze (routes/tone_analysis.py analyze_tone) or
\* MessageService.create_message is entered; both call analyze_tone first.
\* The new task takes the lowest free task number.
Request(r) ==
    /\ UNCHANGED authVars
    /\ Serving /\ pc[r] = "idle" /\ running = {}
    /\ \A q \in Req : pc[q] = "idle" => r <= q
    /\ \E kind \in Kinds, text \in Texts, user \in Users :
        /\ kind = "message" => text \in MessageTexts /\ Len(messages) < MaxMessages
        /\ kind = "analyze" => user = CHOOSE u \in Users : TRUE
        /\ local' = [local EXCEPT ![r] =
                        [EmptyLocal EXCEPT !.kind = kind, !.text = text,
                                           !.user_id = IF kind = "message" THEN user ELSE "none"]]
    /\ pc' = [pc EXCEPT ![r] = "analyze_entry"]
    /\ running' = {r}
    /\ response' = NoResponse
    /\ UNCHANGED <<phase, database, tokenizer, model, is_loaded, loading, loadsDone,
                   loadFailed, messages>>

\* analyze_tone: `if not self.is_loaded: await self.load_model()`
EnsureLoaded(r) ==
    /\ UNCHANGED authVars
    /\ pc[r] = "analyze_entry" /\ CanStep(r)
    /\ IF NeedsLoad(is_loaded)
       THEN /\ pc' = [pc EXCEPT ![r] = "load_tokenizer"]
            /\ local' = [local EXCEPT ![r].called_load = TRUE]
            /\ loading' = loading \cup {r}
            /\ running' = IF LoadModelSuspends THEN {} ELSE {r}
       ELSE /\ pc' = [pc EXCEPT ![r] = "preprocess"]
            /\ local' = local
            /\ loading' = loading
            /\ running' = {r}
    /\ UNCHANGED <<phase, database, tokenizer, model, is_loaded, loadsDone, loadFailed,
                   response, messages>>

\* analyze_tone: processed_text = self._preprocess_text(text)
Preprocess(r) ==
    /\ UNCHANGED authVars
    /\ pc[r] = "preprocess" /\ CanStep(r)
    /\ local' = [local EXCEPT ![r].processed_text = PreprocessText(local[r].text)]
    /\ pc' = [pc EXCEPT ![r] = "sentiment"]
    /\ running' = {r}
    /\ UNCHANGED <<phase, database, tokenizer, model, is_loaded, loading, loadsDone,
                   loadFailed, response, messages>>

\* analyze_tone: sentiment, sentiment_confidence = self._analyze_sentiment(processed_text)
AnalyzeSentiment(r) ==
    /\ UNCHANGED authVars
    /\ pc[r] = "sentiment" /\ CanStep(r)
    /\ IF ~is_loaded
       THEN Raise(r, "not_loaded")
       ELSE \E out \in SentimentOutcomes :
                IF out.raises
                THEN Raise(r, "inference")
                ELSE /\ local' = [local EXCEPT
                                    ![r].sentiment = sentiment_labels[out.class + 1],
                                    ![r].sentiment_confidence = out.confidence]
                     /\ pc' = [pc EXCEPT ![r] = "combine"]
                     /\ running' = {r}
                     /\ response' = response
    /\ UNCHANGED <<phase, database, tokenizer, model, is_loaded, loading, loadsDone,
                   loadFailed, messages>>

\* analyze_tone from _analyze_tone_keywords to its return; the /tone/analyze route
\* answers 200 with the analysis, create_message goes on to store it
Combine(r) ==
    /\ UNCHANGED authVars
    /\ pc[r] = "combine" /\ CanStep(r)
    /\ LET analysis == BuildAnalysis(local[r].text, local[r].processed_text,
                                     local[r].sentiment, local[r].sentiment_confidence)
       IN  IF local[r].kind = "analyze"
           THEN /\ response' = [kind |-> "analyze", status |-> 200, raised |-> "none",
                                text |-> local[r].text, analysis |-> analysis,
                                health |-> NoHealth]
                /\ pc' = [pc EXCEPT ![r] = "idle"]
                /\ local' = [local EXCEPT ![r] = EmptyLocal]
                /\ running' = {}
           ELSE /\ local' = [local EXCEPT ![r].analysis = analysis]
                /\ pc' = [pc EXCEPT ![r] = "insert"]
                /\ running' = {r}
                /\ response' = response
    /\ UNCHANGED <<phase, database, tokenizer, model, is_loaded, loading, loadsDone,
                   loadFailed, messages>>

\* The ObjectId insert_one gives a new document: one no stored document has
NewId(ids) ==
    CHOOSE i \in 1..(Cardinality(ids) + 1) : i \notin ids /\ \A j \in 1..(i - 1) : j \in ids

\* create_message: self._get_collection(), insert_one, MessageResponse; answered 201
InsertMessage(r) ==
    /\ UNCHANGED authVars
    /\ pc[r] = "insert" /\ CanStep(r)
    /\ IF database = "none"
       THEN /\ Raise(r, "database")
            /\ messages' = messages
       ELSE \E ok \in BOOLEAN :
                IF ok
                THEN /\ messages' = Append(messages,
                                       [id |-> NewId({messages[k].id : k \in 1..Len(messages)}),
                                        text |-> local[r].text,
                                        user_id |-> local[r].user_id,
                                        tone_analysis |-> local[r].analysis])
                     /\ response' = [kind |-> "message", status |-> 201, raised |-> "none",
                                     text |-> local[r].text, analysis |-> local[r].analysis,
                                     health |-> NoHealth]
                     /\ pc' = [pc EXCEPT ![r] = "idle"]
                     /\ local' = [local EXCEPT ![r] = EmptyLocal]
                     /\ running' = {}
                ELSE /\ Raise(r, "database")
                     /\ messages' = messages
    /\ UNCHANGED <<phase, database, tokenizer, model, is_loaded, loading, loadsDone,
                   loadFailed>>

\* GET /health reporting "healthy" when the database or the model is there
HealthCheckMutant ==
    /\ UNCHANGED authVars
    /\ Serving /\ running = {}
    /\ LET db_connected == database # "none"
           model_loaded == is_loaded
       IN  response' =
               [NoResponse EXCEPT
                   !.kind = "health", !.status = 200,
                   !.health = [status |-> IF db_connected \/ model_loaded
                                          THEN "healthy" ELSE "unhealthy",
                               database_connected |-> db_connected,
                               model_loaded |-> model_loaded]]
    /\ UNCHANGED <<phase, database, tokenizer, model, is_loaded, pc, local, running,
                   loading, loadsDone, loadFailed, messages>>

\* GET /health
HealthCheck ==
    /\ UNCHANGED authVars
    /\ Serving /\ running = {}
    /\ LET db_connected == database # "none"
           model_loaded == is_loaded
       IN  response' =
               [NoResponse EXCEPT
                   !.kind = "health", !.status = 200,
                   !.health = [status |-> IF db_connected /\ model_loaded
                                          THEN "healthy" ELSE "unhealthy",
                               database_connected |-> db_connected,
                               model_loaded |-> model_loaded]]
    /\ UNCHANGED <<phase, database, tokenizer, model, is_loaded, pc, local, running,
                   loading, loadsDone, loadFailed, messages>>

\* POST /tone/analyze with a text around the length limit, one request at a time
RequestLong(r) ==
    /\ UNCHANGED authVars
    /\ Serving /\ running = {}
    /\ \A q \in Req : pc[q] = "idle" /\ r <= q
    /\ \E text \in LongTexts :
        local' = [local EXCEPT ![r] = [EmptyLocal EXCEPT !.kind = "analyze", !.text = text]]
    /\ pc' = [pc EXCEPT ![r] = "analyze_entry"]
    /\ running' = {r}
    /\ response' = NoResponse
    /\ UNCHANGED <<phase, database, tokenizer, model, is_loaded, loading, loadsDone,
                   loadFailed, messages>>

Next ==
    \/ StartupConnect
    \/ StartupLoad
    \/ Shutdown
    \/ \E t \in Tasks : LoadTokenizer(t)
    \/ \E t \in Tasks : LoadModel(t)
    \/ \E t \in Tasks : LoadDevice(t)
    \/ \E r \in Req : Request(r)
    \/ \E r \in Req : EnsureLoaded(r)
    \/ \E r \in Req : Preprocess(r)
    \/ \E r \in Req : AnalyzeSentiment(r)
    \/ \E r \in Req : Combine(r)
    \/ \E r \in Req : InsertMessage(r)
    \/ HealthCheck

Spec == Init /\ [][Next]_vars

\* The analyze pipeline alone, fed with the texts around the length limit
NextLong ==
    \/ StartupConnect
    \/ StartupLoad
    \/ \E t \in Tasks : LoadTokenizer(t)
    \/ \E t \in Tasks : LoadModel(t)
    \/ \E t \in Tasks : LoadDevice(t)
    \/ \E r \in Req : RequestLong(r)
    \/ \E r \in Req : EnsureLoaded(r)
    \/ \E r \in Req : Preprocess(r)
    \/ \E r \in Req : AnalyzeSentiment(r)
    \/ \E r \in Req : Combine(r)

SpecLong == Init /\ [][NextLong]_vars

\* ---------------------------------------------------------------- auth API
\* UserService.verify_token: the username of the token, "none" for None
VerifyTokenMutant(token) == token.sub

VerifyToken(token) == IF token.signed /\ token.sub # "none" THEN token.sub ELSE "none"

\* collection.find_one({"username": username}): the position of the document, 0 for None
FindUser(username) ==
    LET hits == {i \in 1..Len(users) : users[i].username = username}
    IN  IF hits = {} THEN 0 ELSE CHOOSE i \in hits : \A j \in hits : i <= j

\* db_manager.get_collection and one pymongo call on the collection: raises when the
\* database was never connected, or when the call itself fails (db_ok false)
CollectionRaises(db_ok) == database = "none" \/ ~db_ok

\* The dependencies of a protected route: oauth2_scheme, then get_current_user.
\* An exception that is no HTTPException leaves the application as a 500.
GetCurrentUser(cred, db_ok) ==
    IF ~cred.present
    THEN [status |-> 401, detail |-> "Not authenticated", user |-> 0]
    ELSE LET username == VerifyToken(cred)
         IN  IF username = "none"
             THEN [status |-> 401, detail |-> "Could not validate credentials", user |-> 0]
             ELSE IF CollectionRaises(db_ok)
             THEN [status |-> 500, detail |-> "Internal Server Error", user |-> 0]
             ELSE IF FindUser(username) = 0
             THEN [status |-> 401, detail |-> "Could not validate credentials", user |-> 0]
             ELSE [status |-> 200, detail |-> "none", user |-> FindUser(username)]

\* GET /auth/me: get_current_user_info runs only with the user its dependency returned
GetMe ==
    /\ Serving /\ running = {}
    /\ \E cred \in Credentials, db_ok \in BOOLEAN :
        LET auth == GetCurrentUser(cred, db_ok)
        IN  reply' = IF auth.status = 200
                     THEN [NoReply EXCEPT !.endpoint = "me", !.status = 200,
                                          !.executed = TRUE, !.cred = cred,
                                          !.username = users[auth.user].username]
                     ELSE [NoReply EXCEPT !.endpoint = "me", !.status = auth.status,
                                          !.detail = auth.detail, !.cred = cred]
    /\ UNCHANGED <<phase, database, tokenizer, model, is_loaded, pc, local, running,
                   loading, loadsDone, loadFailed, response, messages, users, creating,
                   feedback>>

\* create_user: find_one({"$or": [{"email": ...}, {"username": ...}]})
UserExistsMutant(username, email) == \E i \in 1..Len(users) : users[i].username = username

UserExists(username, email) ==
    \E i \in 1..Len(users) : users[i].email = email \/ users[i].username = username

\* create_user contains no await that suspends between find_one and insert_one
CreateUserSuspendsMutant == TRUE

CreateUserSuspends == FALSE

\* POST /auth/register up to the existence check of create_user. The route's own
\* HTTPException(400, "Passwords do not match") is raised inside its try block and
\* caught by `except Exception`, which answers 500.
Register(r) ==
    /\ Serving /\ pc[r] = "idle" /\ running = {}
    /\ \A q \in Req : pc[q] = "idle" => r <= q
    /\ \E username \in Usernames, email \in Emails, password \in Passwords,
          confirmed \in BOOLEAN, db_ok \in BOOLEAN :
        LET answer(status, detail) ==
                [NoReply EXCEPT !.endpoint = "register", !.status = status,
                                !.detail = detail, !.executed = TRUE,
                                !.username = username, !.email = email,
                                !.password = password]
        IN  IF ~confirmed \/ CollectionRaises(db_ok)
            THEN /\ reply' = answer(500, "Failed to create user")
                 /\ UNCHANGED <<pc, running, creating>>
            ELSE IF UserExists(username, email)
            THEN /\ reply' = answer(400, "User with this email or username already exists")
                 /\ UNCHANGED <<pc, running, creating>>
            ELSE /\ pc' = [pc EXCEPT ![r] = "insert_user"]
                 /\ creating' = [creating EXCEPT ![r] =
                                    [username |-> username, email |-> email,
                                     password |-> password]]
                 /\ running' = IF CreateUserSuspends THEN {} ELSE {r}
                 /\ reply' = reply
    /\ UNCHANGED <<phase, database, tokenizer, model, is_loaded, local, loading,
                   loadsDone, loadFailed, response, messages, users, feedback>>

\* create_user from the password hash to its return. insert_one raises
\* DuplicateKeyError on a collision when the unique indexes exist; _create_indexes only
\* logs when it could not create them.
InsertUser(r) ==
    /\ pc[r] = "insert_user" /\ CanStep(r)
    /\ \E db_ok \in BOOLEAN, unique_index \in BOOLEAN :
        LET u == creating[r]
            answer(status, detail) ==
                [NoReply EXCEPT !.endpoint = "register", !.status = status,
                                !.detail = detail, !.executed = TRUE,
                                !.username = u.username, !.email = u.email,
                                !.password = u.password]
        IN  IF CollectionRaises(db_ok) \/ (unique_index /\ UserExists(u.username, u.email))
            THEN /\ reply' = answer(500, "Failed to create user")
                 /\ users' = users
            ELSE /\ reply' = answer(201, "none")
                 /\ users' = Append(users, [username |-> u.username, email |-> u.email,
                                            password |-> u.password, is_active |-> TRUE])
    /\ pc' = [pc EXCEPT ![r] = "idle"]
    /\ creating' = [creating EXCEPT ![r] = NoPending]
    /\ running' = {}
    /\ UNCHANGED <<phase, database, tokenizer, model, is_loaded, local, loading,
                   loadsDone, loadFailed, response, messages, feedback>>

\* authenticate_user: the position of the user it returns, 0 for None
AuthenticateUser(username, password) ==
    LET i == FindUser(username)
    IN  IF i = 0 THEN 0
        ELSE IF users[i].password # password THEN 0
        ELSE IF ~users[i].is_active THEN 0
        ELSE i

\* POST /auth/login. The HTTPException(401, "Incorrect username or password") for
\* `not user` is raised inside the route's try block; `except Exception` catches it
\* and raises HTTPException(500, "Failed to authenticate user") in its place.
Login ==
    /\ Serving /\ running = {}
    /\ \E username \in Usernames, password \in LoginPasswords, db_ok \in BOOLEAN :
        LET answer(status, detail) ==
                [NoReply EXCEPT !.endpoint = "login", !.status = status,
                                !.detail = detail, !.executed = TRUE,
                                !.username = username, !.password = password]
        IN  reply' =
                IF CollectionRaises(db_ok) \/ AuthenticateUser(username, password) = 0
                THEN answer(500, "Failed to authenticate user")
                ELSE [answer(200, "none") EXCEPT
                         !.token = [present |-> TRUE, signed |-> TRUE, sub |-> username]]
    /\ UNCHANGED <<phase, database, tokenizer, model, is_loaded, pc, local, running,
                   loading, loadsDone, loadFailed, response, messages, users, creating,
                   feedback>>

\* DELETE /auth/deactivate with UserService.deactivate_user
Deactivate ==
    /\ Serving /\ running = {}
    /\ \E cred \in Credentials, db_ok \in BOOLEAN, update_ok \in BOOLEAN :
        LET auth == GetCurrentUser(cred, db_ok)
            answer(status, detail, executed) ==
                [NoReply EXCEPT !.endpoint = "deactivate", !.status = status,
                                !.detail = detail, !.executed = executed, !.cred = cred]
        IN  IF auth.status # 200
            THEN /\ reply' = answer(auth.status, auth.detail, FALSE)
                 /\ users' = users
            ELSE IF CollectionRaises(update_ok)
            THEN /\ reply' = answer(500, "Failed to deactivate account", TRUE)
                 /\ users' = users
            ELSE /\ reply' = answer(200, "none", TRUE)
                 /\ users' = [users EXCEPT ![auth.user].is_active = FALSE]
    /\ UNCHANGED <<phase, database, tokenizer, model, is_loaded, pc, local, running,
                   loading, loadsDone, loadFailed, response, messages, creating, feedback>>

\* The application serving its auth routes
NextAuth ==
    \/ StartupConnect
    \/ StartupLoad
    \/ \E t \in Tasks : LoadTokenizer(t)
    \/ \E t \in Tasks : LoadModel(t)
    \/ \E t \in Tasks : LoadDevice(t)
    \/ \E r \in Req : Register(r)
    \/ \E r \in Req : InsertUser(r)
    \/ Login
    \/ Deactivate
    \/ GetMe

SpecAuth == Init /\ [][NextAuth]_vars

\* --------------------------------------------------------------- messages API
\* The text a stored message is created from, in the message-store specification
StoreTexts == {TextNice}

\* Search queries: one that matches TextNice ignoring case, one that does not
Queries == {<<"n", "i", "c", "e">>, <<"z">>}

\* Last path segments of /tone/messages/...: the word "search" and ObjectId strings
PathSegments ==
    {[literal |-> "search", oid |-> 0]} \cup
    {[literal |-> "none", oid |-> i] : i \in 1..MaxMessages}

\* POST /tone/messages by an authenticated user, up to the call of analyze_tone
RequestStore(r) ==
    /\ UNCHANGED authVars
    /\ Serving /\ pc[r] = "idle" /\ running = {}
    /\ \A q \in Req : pc[q] = "idle" => r <= q
    /\ Len(messages) < MaxMessages
    /\ \E text \in StoreTexts, user \in Users :
        local' = [local EXCEPT ![r] =
                     [EmptyLocal EXCEPT !.kind = "message", !.text = text,
                                        !.user_id = user]]
    /\ pc' = [pc EXCEPT ![r] = "analyze_entry"]
    /\ running' = {r}
    /\ response' = NoResponse
    /\ UNCHANGED <<phase, database, tokenizer, model, is_loaded, loading, loadsDone,
                   loadFailed, messages>>

\* bson ObjectId(message_id) raises InvalidId unless message_id is 24 hex digits
ValidObjectId(segment) == segment.literal = "none"

\* find_one({"_id": ...}) on the messages collection: the position found, 0 for None
FindMessage(oid) ==
    IF \E i \in 1..Len(messages) : messages[i].id = oid
    THEN CHOOSE i \in 1..Len(messages) : messages[i].id = oid
    ELSE 0

\* get_message: `if message.user_id != current_user.id` refuses the request
OwnsMessageMutant(message, user_id) == TRUE

OwnsMessage(message, user_id) == message.user_id = user_id

\* The route get_message with MessageService.get_message
GetMessage(caller, segment, db_ok) ==
    LET answer(status, detail) ==
            [NoReply EXCEPT !.endpoint = "get_message", !.status = status,
                            !.detail = detail, !.executed = TRUE, !.caller = caller,
                            !.segment = segment]
        i == FindMessage(segment.oid)
    IN  IF CollectionRaises(db_ok) \/ ~ValidObjectId(segment)
        THEN answer(500, "Failed to get message")
        ELSE IF i = 0 THEN answer(404, "Message not found")
        ELSE IF ~OwnsMessage(messages[i], caller) THEN answer(403, "Access denied")
        ELSE [answer(200, "none") EXCEPT !.body = <<messages[i]>>]

RECURSIVE Newest(_, _)
\* find(...).sort("created_at", -1): the documents at positions `keep`, newest first
Newest(collection, keep) ==
    IF keep = {} THEN << >>
    ELSE LET last == CHOOSE i \in keep : \A j \in keep : j <= i
         IN  <<collection[last]>> \o Newest(collection, keep \ {last})

\* limit(n) of a cursor
Limit(docs, n) == IF Len(docs) <= n THEN docs ELSE SubSeq(docs, 1, n)

\* The route search_messages with MessageService.search_messages, default limit
SearchMessages(caller, query, db_ok) ==
    LET answer(status, detail) ==
            [NoReply EXCEPT !.endpoint = "search_messages", !.status = status,
                            !.detail = detail, !.executed = TRUE, !.caller = caller,
                            !.segment = [literal |-> "search", oid |-> 0],
                            !.data = query]
        found == {i \in 1..Len(messages) :
                      /\ messages[i].user_id = caller
                      /\ Contains(Lower(messages[i].text), Lower(query))}
    IN  IF CollectionRaises(db_ok)
        THEN answer(500, "Failed to search messages")
        ELSE [answer(200, "none") EXCEPT
                 !.body = Limit(Newest(messages, found), SEARCH_LIMIT)]

\* The GET routes of the router whose path is /tone/messages/<one segment>, in the
\* order the decorators register them
GetRoutes == <<"get_message", "search_messages">>

\* Path matching: {message_id} takes any one segment, /messages/search only its own
Matches(route, segment) ==
    \/ route = "get_message"
    \/ route = "search_messages" /\ segment.literal = "search"

\* Starlette answers with the first registered route that matches
Dispatch(segment) ==
    LET first == CHOOSE i \in 1..Len(GetRoutes) :
                     /\ Matches(GetRoutes[i], segment)
                     /\ \A j \in 1..(i - 1) : ~Matches(GetRoutes[j], segment)
    IN  GetRoutes[first]

\* GET /tone/messages/<segment>?query=... by an authenticated user
GetMessagesPath ==
    /\ Serving /\ running = {}
    /\ \E caller \in Users, segment \in PathSegments, query \in Queries,
          db_ok \in BOOLEAN :
        reply' = IF Dispatch(segment) = "search_messages"
                 THEN SearchMessages(caller, query, db_ok)
                 ELSE [GetMessage(caller, segment, db_ok) EXCEPT
                          !.data = IF segment.literal = "search" THEN query ELSE << >>]
    /\ UNCHANGED <<phase, database, tokenizer, model, is_loaded, pc, local, running,
                   loading, loadsDone, loadFailed, response, messages, users, creating,
                   feedback>>

\* delete_one({"_id": ..., "user_id": user_id}): the position deleted, 0 for none
DeleteFilterMutant(oid, user_id) == FindMessage(oid)

DeleteFilter(oid, user_id) ==
    LET i == FindMessage(oid)
    IN  IF i # 0 /\ messages[i].user_id = user_id THEN i ELSE 0

\* The sequence without its i-th element
Remove(collection, i) ==
    SubSeq(collection, 1, i - 1) \o SubSeq(collection, i + 1, Len(collection))

\* DELETE /tone/messages/<segment> by an authenticated user, with
\* MessageService.delete_message
DeleteMessage ==
    /\ Serving /\ running = {}
    /\ \E caller \in Users, segment \in PathSegments, db_ok \in BOOLEAN :
        LET answer(status, detail) ==
                [NoReply EXCEPT !.endpoint = "delete_message", !.status = status,
                                !.detail = detail, !.executed = TRUE, !.caller = caller,
                                !.segment = segment]
            i == DeleteFilter(segment.oid, caller)
        IN  IF CollectionRaises(db_ok) \/ ~ValidObjectId(segment)
            THEN /\ reply' = answer(500, "Failed to delete message")
                 /\ messages' = messages
            ELSE IF i = 0
            THEN /\ reply' = answer(404, "Message not found or access denied")
                 /\ messages' = messages
            ELSE /\ reply' = answer(200, "Message deleted successfully")
                 /\ messages' = Remove(messages, i)
    /\ UNCHANGED <<phase, database, tokenizer, model, is_loaded, pc, local, running,
                   loading, loadsDone, loadFailed, response, users, creating, feedback>>

\* The application serving its message routes
NextStore ==
    \/ StartupConnect
    \/ StartupLoad
    \/ \E t \in Tasks : LoadTokenizer(t)
    \/ \E t \in Tasks : LoadModel(t)
    \/ \E t \in Tasks : LoadDevice(t)
    \/ \E r \in Req : RequestStore(r)
    \/ \E r \in Req : EnsureLoaded(r)
    \/ \E r \in Req : Preprocess(r)
    \/ \E r \in Req : AnalyzeSentiment(r)
    \/ \E r \in Req : Combine(r)
    \/ \E r \in Req : InsertMessage(r)
    \/ GetMessagesPath
    \/ DeleteMessage

SpecStore == Init /\ [][NextStore]_vars

\* --------------------------------------------------------------- feedback API
\* FeedbackCreate: ratings on the 1-5 scale, optional comments ("none" for None)
Ratings == {4}

Comments == {"none", "fine"}

\* Last path segments of /feedback/...: ObjectId strings and one that is none
FeedbackSegments ==
    {[literal |-> "abc", oid |-> 0]} \cup
    {[literal |-> "none", oid |-> i] : i \in 1..MaxFeedback}

\* Bodies of PUT /feedback/{feedback_id}: any JSON object
UpdateData ==
    { ("comments" :> "edited"),
      ("tone_accuracy" :> 3),
      ("user_id" :> "u2") @@ ("message_id" :> 2) @@ ("_id" :> 2) @@ ("comments" :> "taken") }

\* POST /feedback/ by an authenticated user, with FeedbackService.create_feedback
CreateFeedback ==
    /\ Serving /\ running = {}
    /\ Len(feedback) < MaxFeedback
    /\ \E caller \in Users, message_id \in 1..MaxMessages, tone_accuracy \in Ratings,
          suggestion_helpfulness \in Ratings, comments \in Comments, db_ok \in BOOLEAN :
        LET answer(status, detail) ==
                [NoReply EXCEPT !.endpoint = "create_feedback", !.status = status,
                                !.detail = detail, !.executed = TRUE, !.caller = caller]
            feedback_doc ==
                ("_id" :> NewId({feedback[k]["_id"] : k \in 1..Len(feedback)})) @@
                ("message_id" :> message_id) @@ ("user_id" :> caller) @@
                ("tone_accuracy" :> tone_accuracy) @@
                ("suggestion_helpfulness" :> suggestion_helpfulness) @@
                ("comments" :> comments) @@ ("created_at" :> "created")
        IN  IF CollectionRaises(db_ok)
            THEN /\ reply' = answer(500, "Failed to create feedback")
                 /\ feedback' = feedback
            ELSE /\ reply' = [answer(201, "none") EXCEPT !.body = <<feedback_doc>>]
                 /\ feedback' = Append(feedback, feedback_doc)
    /\ UNCHANGED <<phase, database, tokenizer, model, is_loaded, pc, local, running,
                   loading, loadsDone, loadFailed, response, messages, users, creating>>

\* update_feedback: update_data.pop("message_id"), .pop("user_id"), .pop("_id")
RemoveImmutableMutant(update_data) == update_data

RemoveImmutable(update_data) ==
    [k \in DOMAIN update_data \ {"message_id", "user_id", "_id"} |-> update_data[k]]

\* update_one / find_one filter on the feedback collection: the position matched, 0
\* for none
FindFeedback(oid, user_ids) ==
    LET match == {i \in 1..Len(feedback) :
                      feedback[i]["_id"] = oid /\ feedback[i]["user_id"] \in user_ids}
    IN  IF match = {} THEN 0 ELSE CHOOSE i \in match : TRUE

\* {"$set": update_data} applied to a document
SetFields(doc, update_data) ==
    [k \in DOMAIN doc \cup DOMAIN update_data |->
        IF k \in DOMAIN update_data THEN update_data[k] ELSE doc[k]]

\* PUT /feedback/<segment> by an authenticated user, with
\* FeedbackService.update_feedback. updated_at is set to the current time, so a matched
\* document always counts as modified. read_ok: the get_feedback call after the update.
UpdateFeedback ==
    /\ Serving /\ running = {}
    /\ \E caller \in Users, segment \in FeedbackSegments, data \in UpdateData,
          db_ok \in BOOLEAN, read_ok \in BOOLEAN :
        LET answer(status, detail) ==
                [NoReply EXCEPT !.endpoint = "update_feedback", !.status = status,
                                !.detail = detail, !.executed = TRUE, !.caller = caller,
                                !.segment = segment]
            update_data == RemoveImmutable(data) @@ ("updated_at" :> "updated")
            i == FindFeedback(segment.oid, {caller})
            updated == [feedback EXCEPT ![i] = SetFields(feedback[i], update_data)]
        IN  IF CollectionRaises(db_ok) \/ ~ValidObjectId(segment)
            THEN /\ reply' = answer(500, "Failed to update feedback")
                 /\ feedback' = feedback
            ELSE IF i = 0
            THEN /\ reply' = answer(404, "Feedback not found or access denied")
                 /\ feedback' = feedback
            ELSE /\ feedback' = updated
                 /\ reply' = IF CollectionRaises(read_ok)
                             THEN answer(500, "Failed to update feedback")
                             ELSE [answer(200, "none") EXCEPT !.body = <<updated[i]>>]
    /\ UNCHANGED <<phase, database, tokenizer, model, is_loaded, pc, local, running,
                   loading, loadsDone, loadFailed, response, messages, users, creating>>

\* The application serving its feedback routes
NextFeedback ==
    \/ StartupConnect
    \/ StartupLoad
    \/ \E t \in Tasks : LoadTokenizer(t)
    \/ \E t \in Tasks : LoadModel(t)
    \/ \E t \in Tasks : LoadDevice(t)
    \/ CreateFeedback
    \/ UpdateFeedback

SpecFeedback == Init /\ [][NextFeedback]_vars

\* ------------------------------------------------------------------ claims
\* The handler that ran last called analyze_tone and got an analysis back.
Answered == response.kind \in {"analyze", "message"} /\ response.raised = "none"

\* Origins of an exception that leaves analyze_tone
AnalyzeFaults == {"load_model", "not_loaded", "inference"}

\* C1: for every input text and every backend behaviour, analyze returns a well-formed
\* result to its caller and never raises or surfaces a fault.
C1_AnalyzeNeverRaises ==
    response.kind \in {"analyze", "message"} => response.raised \notin AnalyzeFaults

\* C2: in every result returned by analyze the detected tone is one member of the
\* closed set {sad, angry, friendly}.
C2_ToneInClosedSet ==
    Answered => response.analysis.detected_tone \in ToneType

\* C3: for every accepted input (whitespace-only text included) the rewritten text of
\* the result is never empty, and a text the rewrite leaves alone equals the
\* preprocessed input.
C3_RewrittenNeverEmpty ==
    Answered =>
        /\ response.analysis.improved_text # << >>
        /\ response.analysis.detected_tone # CASUAL =>
               response.analysis.improved_text = PreprocessText(response.text)

\* C4: when the backend invocation fails (raises, or the model is not loaded), detection
\* gives "friendly" and rewriting gives the preprocessed input; nothing is raised.
C4_BackendFailureAbsorbed ==
    response.raised \in AnalyzeFaults =>
        /\ response.status # 500
        /\ response.analysis.detected_tone = FRIENDLY
        /\ response.analysis.improved_text = PreprocessText(response.text)

\* C5: an error that escapes preprocessing, detection or rewriting is caught by the
\* orchestrator, which returns tone "friendly" with the original input text.
C5_OrchestratorFailSafe ==
    response.kind \in {"analyze", "message"} /\ response.raised \in AnalyzeFaults =>
        /\ response.analysis.detected_tone = FRIENDLY
        /\ response.analysis.improved_text = response.text

\* C6: the model load is executed at most once: no two loads run at the same time and
\* no load runs once one has succeeded.
C6_LoadAtMostOnce ==
    /\ Cardinality(loading) <= 1
    /\ loadsDone <= 1
    /\ is_loaded => loading = {}

\* A second request is served after the first one loaded the model, without loading.
C6_Witness ==
    /\ phase = "adhoc" /\ loadsDone = 1
    /\ \E r \in Req : pc[r] = "sentiment" /\ ~local[r].called_load

\* C7: once is_loaded is true it stays true, and no startup, analyze, create-message or
\* health-check step enters load_model or completes a load again.
C7_ReadyIsTerminal ==
    [][is_loaded => is_loaded' /\ loadsDone' = loadsDone /\ loading' = {}]_vars

\* Ready, with a message created and a health check answered since.
C7_Witness ==
    /\ is_loaded /\ loadsDone = 1 /\ Len(messages) > 0
    /\ response.kind = "health" /\ response.health.model_loaded

\* C8: a load that fails leaves is_loaded false, an analyze call that finds is_loaded
\* false calls load_model, and a load that completes sets is_loaded.
C8_FailedLoadRetried ==
    [][/\ (~loadFailed /\ loadFailed') \/ (\E t \in loading : t \notin loading' /\ loadsDone' = loadsDone)
            => ~is_loaded'
       /\ \A r \in Req :
            pc[r] = "analyze_entry" /\ pc'[r] # "analyze_entry" /\ ~is_loaded
                => pc'[r] = "load_tokenizer" /\ r \in loading'
       /\ loadsDone' > loadsDone => is_loaded']_vars

\* A load failed earlier and a later analyze call has loaded the model.
C8_Witness ==
    /\ loadFailed /\ is_loaded /\ phase = "adhoc"
    /\ \E r \in Req : pc[r] = "preprocess" /\ local[r].called_load

\* Spec 4.2 step 4: the keyword sets of the fallback the claim describes
SadKeywords ==
    {<<"s","o","r","r","y">>,
     <<"d","i","s","a","p","p","o","i","n","t","e","d">>,
     <<"u","p","s","e","t">>,
     <<"h","u","r","t">>,
     <<"c","r","y">>,
     <<"t","e","a","r","s">>}

AngryKeywords ==
    {<<"a","n","g","r","y">>,
     <<"m","a","d">>,
     <<"f","u","r","i","o","u","s">>,
     <<"h","a","t","e">>,
     <<"s","t","u","p","i","d">>,
     <<"d","a","m","n">>}

\* The three labels the claim's detector scans the backend answer for
LabelChars ==
    {<<"s","a","d">>, <<"a","n","g","r","y">>, <<"f","r","i","e","n","d","l","y">>}

\* The answers _analyze_sentiment can give, spelled out
SentimentChars ==
    {<<"n","e","g","a","t","i","v","e">>,
     <<"n","e","u","t","r","a","l">>,
     <<"p","o","s","i","t","i","v","e">>}

KeywordFallback(text) ==
    IF \E k \in SadKeywords : Contains(Lower(text), k) THEN "sad"
    ELSE IF \E k \in AngryKeywords : Contains(Lower(text), k) THEN "angry"
    ELSE "friendly"

NoLabelInAnswer == \A a \in SentimentChars : \A l \in LabelChars : ~Contains(Lower(a), l)

\* C10: when the backend answer contains none of the three labels, the tone is decided
\* from the keywords of the input text: a sad keyword gives sad, otherwise an angry
\* keyword gives angry, otherwise friendly.
C10_KeywordFallback ==
    Answered /\ NoLabelInAnswer =>
        response.analysis.detected_tone = KeywordFallback(PreprocessText(response.text))

C12_TruncatedBeforeUse ==
    /\ \A r \in Req :
        pc[r] \in {"sentiment", "combine"} =>
            /\ Len(local[r].processed_text) <= MAX_TEXT_LENGTH
            /\ Len(local[r].text) > MAX_TEXT_LENGTH =>
                   local[r].processed_text = Strip(SubSeq(local[r].text, 1, MAX_TEXT_LENGTH))
    /\ Answered /\ Len(response.text) > MAX_TEXT_LENGTH
                /\ response.analysis.detected_tone # CASUAL =>
           response.analysis.improved_text = Strip(SubSeq(response.text, 1, MAX_TEXT_LENGTH))

\* The over-long text is about to be classified, cut and trimmed to 511 characters.
C12_Witness ==
    \E r \in Req :
        /\ pc[r] = "sentiment" /\ Len(local[r].text) > MAX_TEXT_LENGTH
        /\ Len(local[r].processed_text) = MAX_TEXT_LENGTH - 1

\* C13: the preprocess step never raises, it always hands over to detection, and a text
\* that is empty after trimming is handed over as the empty string.
C13_PreprocessTotal ==
    [][\A r \in Req :
          pc[r] = "preprocess" /\ pc'[r] # "preprocess" =>
              /\ pc'[r] = "sentiment"
              /\ response' = response
              /\ (\A i \in 1..Len(local[r].text) : local[r].text[i] \in Whitespace) =>
                     local'[r].processed_text = << >>]_vars

\* The blank text went through preprocessing and is about to be classified.
C13_Witness ==
    \E r \in Req :
        pc[r] = "sentiment" /\ local[r].text = TextBlank /\ local[r].processed_text = << >>

\* The order of the steps of one analyze_tone call; a raise ends the call from the load
\* steps and from the classifier, create_message ends after its insert.
AnalyzeSteps ==
    {<<"idle", "analyze_entry">>, <<"analyze_entry", "load_tokenizer">>,
     <<"analyze_entry", "preprocess">>, <<"load_tokenizer", "load_model">>,
     <<"load_model", "load_device">>, <<"load_device", "preprocess">>,
     <<"preprocess", "sentiment">>, <<"sentiment", "combine">>, <<"combine", "insert">>}
        \cup {<<s, "idle">> : s \in {"load_tokenizer", "load_model", "load_device",
                                     "sentiment", "combine", "insert"}}

\* C14: every analyze call goes through loaded check (with load), preprocess, detection
\* and rewrite in this order; detection scores the preprocessed text, and the rewrite
\* works on the preprocessed text with the tone that is reported in the result.
C14_AnalyzeOrder ==
    [][\A r \in Req :
          /\ pc'[r] # pc[r] => <<pc[r], pc'[r]>> \in AnalyzeSteps
          /\ pc'[r] \in {"preprocess", "sentiment", "combine"} => is_loaded'
          /\ pc[r] = "combine" /\ pc'[r] # "combine" =>
                LET a == IF pc'[r] = "insert" THEN local'[r].analysis ELSE response'.analysis
                    p == local[r].processed_text
                IN  /\ a.tone_breakdown.tone_scores = AnalyzeToneKeywords(p)
                    /\ a.improved_text =
                          IF a.detected_tone = CASUAL
                          THEN ApplyReplacements(p, CasualToProfessional, 1)
                          ELSE p]_vars

\* A call that loaded the model itself detected the casual tone and rewrote the text.
C14_Witness ==
    \E r \in Req :
        /\ pc[r] = "insert" /\ local[r].called_load
        /\ local[r].analysis.detected_tone = CASUAL
        /\ local[r].analysis.improved_text # local[r].processed_text

\* The steps of analyze_tone outside load_model
AnalyzeStages == {"analyze_entry", "preprocess", "sentiment", "combine"}

\* C15: a step of an analyze call made while the backend is ready changes neither
\* is_loaded, model, tokenizer nor the load bookkeeping, and touches no other request.
C15_ReadyAnalyzeFrame ==
    [][\A r \in Req :
          is_loaded /\ pc[r] \in AnalyzeStages /\ pc'[r] # pc[r] =>
              /\ UNCHANGED <<is_loaded, tokenizer, model, loading, loadsDone>>
              /\ \A q \in Req \ {r} : local'[q] = local[q] /\ pc'[q] = pc[q]]_vars

\* A request served after startup loaded the model has its result ready.
C15_Witness ==
    /\ phase = "serving" /\ is_loaded /\ loadsDone = 1
    /\ \E r \in Req : pc[r] = "combine" /\ ~local[r].called_load

Unauthenticated(cred) ==
    \/ ~cred.present
    \/ ~cred.signed
    \/ cred.sub = "none"
    \/ \A i \in 1..Len(users) : users[i].username # cred.sub

\* C20: a request to a protected endpoint with no bearer token, a token that fails
\* verification, or a token whose subject names no existing user is answered 401 and
\* the protected handler is not executed.
C20_RejectedWith401 ==
    [][reply' # reply /\ reply'.endpoint = "me" /\ Unauthenticated(reply'.cred) =>
           reply'.status = 401 /\ ~reply'.executed]_vars

\* C20, amended: such a request never reaches the protected handler; it is answered 401
\* when the token is missing or fails verification, and for a verified token that names
\* no existing user 401 or, when the user lookup raises, 500 (always 500 while the
\* database is not connected).
C20_RejectedBeforeHandler ==
    [][reply' # reply /\ reply'.endpoint = "me" /\ Unauthenticated(reply'.cred) =>
           /\ ~reply'.executed
           /\ IF ~reply'.cred.present \/ ~reply'.cred.signed \/ reply'.cred.sub = "none"
              THEN reply'.status = 401
              ELSE /\ reply'.status \in {401, 500}
                   /\ database = "none" => reply'.status = 500]_vars

\* With one user registered, a verified token naming another user was answered 401.
C20_Witness ==
    /\ reply.endpoint = "me" /\ reply.status = 401 /\ ~reply.executed
    /\ reply.cred.signed /\ reply.cred.sub = "bob"
    /\ Len(users) = 1 /\ users[1].username = "alice"

\* C21: POST /tone/analyze answers either 200 with an analysis whose original_text,
\* detected_tone, confidence_score, suggestions and improved_text are filled in, or 500
\* when the analysis raised; it produces no other status.
C21_AnalyzeRouteStatus ==
    response.kind = "analyze" =>
        \/ /\ response.status = 200 /\ response.raised = "none"
           /\ response.analysis.original_text = response.text
           /\ response.analysis.detected_tone \in AnalyzerTones
           /\ response.analysis.confidence_score # RZero
           /\ response.analysis.suggestions # << >>
           /\ Len(response.analysis.improved_text) <= MAX_TEXT_LENGTH
        \/ /\ response.status = 500 /\ response.raised \in AnalyzeFaults
           /\ response.analysis = NoAnalysis

\* POST /tone/analyze answered 500 because the classifier raised.
C21_Witness ==
    response.kind = "analyze" /\ response.status = 500 /\ response.raised = "inference"

\* C22: GET /health answers 200 in every state of the database and the backend;
\* model_loaded is is_loaded at that moment, and the status is "healthy" exactly when
\* the database is connected and the model is loaded.
C22_HealthReport ==
    [][response' # response /\ response'.kind = "health" =>
           /\ response'.status = 200
           /\ response'.health.model_loaded = is_loaded
           /\ response'.health.database_connected = (database # "none")
           /\ response'.health.status \in {"healthy", "unhealthy"}
           /\ response'.health.status = "healthy" <=> database # "none" /\ is_loaded]_vars

\* A health check answered "unhealthy" with the model loaded and no database.
C22_Witness ==
    /\ response.kind = "health" /\ response.status = 200
    /\ response.health.status = "unhealthy"
    /\ response.health.model_loaded /\ ~response.health.database_connected

C29_LoadedMeansInitialized ==
    [][/\ is_loaded' => tokenizer' = "set" /\ model' = "set"
       /\ (\E t \in loading : t \notin loading' /\ loadsDone' = loadsDone) => ~is_loaded'
       /\ \A r \in Req :
            pc[r] = "sentiment" /\ pc'[r] = "combine" =>
                is_loaded /\ tokenizer = "set" /\ model = "set"]_vars

\* A load failed after the tokenizer was set: is_loaded is false, the model is missing.
C29_Witness ==
    loadFailed /\ ~is_loaded /\ tokenizer = "set" /\ model = "none"

\* No two documents of the users collection share a username or an email.
UsersUnique ==
    \A i, j \in 1..Len(users) :
        i # j => users[i].username # users[j].username /\ users[i].email # users[j].email

\* A registration was answered for a username or an email that a stored user has.
CollidingRegistration ==
    /\ reply' # reply /\ reply'.endpoint = "register"
    /\ UserExists(reply'.username, reply'.email)

C27_FailedLogin401 ==
    [][/\ reply' # reply /\ reply'.endpoint = "login"
       /\ AuthenticateUser(reply'.username, reply'.password) = 0
       => /\ reply'.status = 401
          /\ reply'.detail = "Incorrect username or password"
          /\ reply'.token = NoToken]_vars


\* The answered request named a stored message that its caller does not own.
OnForeignMessage ==
    /\ reply' # reply
    /\ ValidObjectId(reply'.segment)
    /\ FindMessage(reply'.segment.oid) # 0
    /\ messages[FindMessage(reply'.segment.oid)].user_id # reply'.caller

\* C24: a message can be read through GET /tone/messages/{message_id} and deleted
\* through DELETE /tone/messages/{message_id} only by the user who owns it; for any
\* other authenticated user the read is refused with 403 and the delete removes
\* nothing and reports not found, leaving the stored messages unchanged.
C24_OwnerOnly ==
    [][OnForeignMessage =>
           /\ messages' = messages
           /\ reply'.body = << >>
           /\ reply'.endpoint = "get_message" => reply'.status = 403
           /\ reply'.endpoint = "delete_message" => reply'.status = 404]_vars

\* C24, amended: for a user who does not own the message the read returns no message
\* and the delete removes nothing, leaving the stored messages unchanged; the read is
\* answered 403 and the delete 404, or either one 500 when the database call raises.
C24_OwnerOnlyOrFailed ==
    [][OnForeignMessage =>
           /\ messages' = messages
           /\ reply'.body = << >>
           /\ reply'.endpoint = "get_message" => reply'.status \in {403, 500}
           /\ reply'.endpoint = "delete_message" => reply'.status \in {404, 500}]_vars

\* u2 asked to delete the message of u1, was told 404, and the message is still stored.
C24_Witness ==
    /\ reply.endpoint = "delete_message" /\ reply.status = 404
    /\ reply.caller = "u2"
    /\ FindMessage(reply.segment.oid) # 0
    /\ messages[FindMessage(reply.segment.oid)].user_id = "u1"

\* C30: a GET request to /tone/messages/search with a query is dispatched to
\* search_messages and returns only the caller's messages whose text matches the
\* query; it is never handled by the /tone/messages/{message_id} route.
C30_SearchDispatched ==
    [][/\ reply' # reply
       /\ reply'.endpoint \in {"get_message", "search_messages"}
       /\ reply'.segment.literal = "search"
       => /\ reply'.endpoint = "search_messages"
          /\ \A k \in 1..Len(reply'.body) :
                 /\ reply'.body[k].user_id = reply'.caller
                 /\ Contains(Lower(reply'.body[k].text), Lower(reply'.data))]_vars

\* Every stored feedback document that the step changes is changed by an
\* update_feedback call of its owner and keeps its message_id, user_id and _id.
FeedbackFrame ==
    \A i \in 1..Len(feedback) :
        feedback'[i] # feedback[i] =>
            /\ reply'.endpoint = "update_feedback"
            /\ reply'.caller = feedback[i]["user_id"]
            /\ feedback'[i]["message_id"] = feedback[i]["message_id"]
            /\ feedback'[i]["user_id"] = feedback[i]["user_id"]
            /\ feedback'[i]["_id"] = feedback[i]["_id"]

\* An update_feedback call was answered for a stored document its caller does not own.
UpdateByNonOwner ==
    /\ reply' # reply /\ reply'.endpoint = "update_feedback"
    /\ FindFeedback(reply'.segment.oid, Users) # 0
    /\ FindFeedback(reply'.segment.oid, {reply'.caller}) = 0

\* C25: update_feedback changes a feedback document only when the caller is its owner
\* and never changes its message_id, user_id or _id, whatever keys the update data
\* contains; an update by a non-owner modifies nothing and returns None (the route
\* answers 404 "Feedback not found or access denied").
C25_OwnerUpdatesOnly ==
    [][/\ FeedbackFrame
       /\ UpdateByNonOwner =>
              /\ feedback' = feedback
              /\ reply'.status = 404
              /\ reply'.detail = "Feedback not found or access denied"]_vars

\* C25, amended: the same frame; an update by a non-owner modifies nothing and returns
\* None, or raises when the database call raises (the route answers 500 "Failed to
\* update feedback").
C25_OwnerUpdatesOnlyOrRaises ==
    [][/\ FeedbackFrame
       /\ UpdateByNonOwner =>
              /\ feedback' = feedback
              /\ \/ /\ reply'.status = 404
                    /\ reply'.detail = "Feedback not found or access denied"
                 \/ /\ reply'.status = 500
                    /\ reply'.detail = "Failed to update feedback"]_vars

\* The owner u1 sent an update carrying user_id, message_id, _id and comments: the
\* comments changed, the three immutable fields did not.
C25_Witness ==
    /\ reply.endpoint = "update_feedback" /\ reply.status = 200 /\ reply.caller = "u1"
    /\ Len(feedback) = 1
    /\ feedback[1]["comments"] = "taken"
    /\ feedback[1]["user_id"] = "u1"
    /\ feedback[1]["message_id"] = 1
    /\ feedback[1]["_id"] = 1

=========================================================================
